---- MODULE Spec2Model ----
(***************************************************************************)
(* Model of the procedure grouper of the surgical video metadata viewer:   *)
(* group_related_videos (src/app.py), which sorts the flat list of video   *)
(* records, scans it once comparing each record with its predecessor, and  *)
(* turns every group of more than one record into a combined entry.        *)
(*                                                                         *)
(* A Python dict is a record with a field "keys" (the keys present) and    *)
(* one field per key.  Text is a TLA+ string; start_time and end_time are  *)
(* tagged values (str, int, None) because the code's behaviour depends on  *)
(* their Python type.  The caller's list is the variable videos; every     *)
(* other list of the function holds references (indices) into it, as the   *)
(* Python lists hold references to the same dicts.                         *)
(***************************************************************************)
EXTENDS Integers, Sequences, FiniteSets, TLC

(***************************************************************************)
(* Bounds of the model.                                                    *)
(***************************************************************************)
MaxLen == 3
MaxCalls == 2

(***************************************************************************)
(* Python str: comparison by code point, membership, slicing.              *)
(***************************************************************************)
Alphabet == " ()+,-./0123456789:?ABCDEFGHIJKLMNOPQRSTUVWXYZ_abcdefghijklmnopqrstuvwxyz"

Ch(s, i) == SubSeq(s, i, i)

Ord(c) == CHOOSE i \in 1..Len(Alphabet) : Ch(Alphabet, i) = c

MinOf(a, b) == IF a <= b THEN a ELSE b

MaxOf(a, b) == IF a >= b THEN a ELSE b

\* s < t for two Python strings
StrLt(s, t) ==
    LET n == MinOf(Len(s), Len(t))
        D == {i \in 1..n : Ch(s, i) # Ch(t, i)}
    IN  IF D = {}
        THEN Len(s) < Len(t)
        ELSE LET d == CHOOSE i \in D : \A j \in D : i <= j
             IN  Ord(Ch(s, d)) < Ord(Ch(t, d))

\* c in s, for a one-character c
Contains(s, c) == \E i \in 1..Len(s) : Ch(s, i) = c

\* s[:n]
Prefix(s, n) == SubSeq(s, 1, MinOf(n, Len(s)))

\* s[-n:]
Suffix(s, n) == SubSeq(s, MaxOf(1, Len(s) - n + 1), Len(s))

\* s.split('.')[0]
BeforeDot(s) ==
    LET D == {i \in 1..Len(s) : Ch(s, i) = "."}
    IN  IF D = {} THEN s
        ELSE SubSeq(s, 1, (CHOOSE i \in D : \A j \in D : i <= j) - 1)

RECURSIVE JoinComma(_)
\* ', '.join(names)
JoinComma(names) ==
    IF Len(names) = 0 THEN ""
    ELSE IF Len(names) = 1 THEN names[1]
    ELSE names[1] \o ", " \o JoinComma(Tail(names))

(***************************************************************************)
(* datetime.fromisoformat on the forms YYYY-MM-DD?HH:MM[:SS][+HH:MM|-HH:MM]*)
(* and the subtraction of two datetimes, in seconds.                       *)
(***************************************************************************)
IsDigit(c) == c \in {"0", "1", "2", "3", "4", "5", "6", "7", "8", "9"}

DigitVal(c) == Ord(c) - Ord("0")

AllDigits(s, a, b) == \A i \in a..b : IsDigit(Ch(s, i))

RECURSIVE NumFrom(_, _, _)
NumFrom(s, a, b) ==
    IF b < a THEN 0 ELSE NumFrom(s, a, b - 1) * 10 + DigitVal(Ch(s, b))

DaysInMonth(y, m) ==
    IF m \in {4, 6, 9, 11} THEN 30
    ELSE IF m = 2
         THEN IF (y % 4 = 0 /\ y % 100 # 0) \/ y % 400 = 0 THEN 29 ELSE 28
         ELSE 31

RECURSIVE DaysBeforeMonth(_, _)
DaysBeforeMonth(y, m) ==
    IF m <= 1 THEN 0 ELSE DaysBeforeMonth(y, m - 1) + DaysInMonth(y, m - 1)

\* date.toordinal(): days since 0001-01-01, plus one
Ordinal(y, m, d) ==
    LET p == y - 1
    IN  p * 365 + (p \div 4) - (p \div 100) + (p \div 400)
          + DaysBeforeMonth(y, m) + d

\* the time zone suffix starting at position a: absent, valid or invalid
TzShape(s, a) ==
    IF Len(s) < a THEN "naive"
    ELSE IF /\ Len(s) = a + 5
            /\ Ch(s, a) \in {"+", "-"}
            /\ AllDigits(s, a + 1, a + 2)
            /\ Ch(s, a + 3) = ":"
            /\ AllDigits(s, a + 4, a + 5)
            /\ NumFrom(s, a + 1, a + 2) <= 23
            /\ NumFrom(s, a + 4, a + 5) <= 59
         THEN "aware"
         ELSE "invalid"

TzSeconds(s, a) ==
    LET v == NumFrom(s, a + 1, a + 2) * 3600 + NumFrom(s, a + 4, a + 5) * 60
    IN  IF Ch(s, a) = "-" THEN 0 - v ELSE v

\* position just after the HH:MM[:SS] part, 0 when the text is no datetime
TimeEnd(s) ==
    IF /\ Len(s) >= 16
       /\ AllDigits(s, 1, 4) /\ Ch(s, 5) = "-"
       /\ AllDigits(s, 6, 7) /\ Ch(s, 8) = "-"
       /\ AllDigits(s, 9, 10)
       /\ AllDigits(s, 12, 13) /\ Ch(s, 14) = ":"
       /\ AllDigits(s, 15, 16)
    THEN IF Len(s) >= 19 /\ Ch(s, 17) = ":" /\ AllDigits(s, 18, 19)
         THEN 20
         ELSE 17
    ELSE 0

\* [ok, aware, days, secs]: ok = FALSE is ValueError; days is the ordinal of
\* the date and secs the second of the day, less the UTC offset when aware
FromIsoFormat(s) ==
    LET e == TimeEnd(s)
        bad == [ok |-> FALSE, aware |-> FALSE, days |-> 0, secs |-> 0]
    IN  IF e = 0 THEN bad
        ELSE LET y == NumFrom(s, 1, 4)
                 mo == NumFrom(s, 6, 7)
                 d == NumFrom(s, 9, 10)
                 hh == NumFrom(s, 12, 13)
                 mi == NumFrom(s, 15, 16)
                 ss == IF e = 20 THEN NumFrom(s, 18, 19) ELSE 0
                 tz == TzShape(s, e)
             IN  IF \/ y < 1 \/ mo < 1 \/ mo > 12
                    \/ d < 1 \/ d > DaysInMonth(y, mo)
                    \/ hh > 23 \/ mi > 59 \/ ss > 59
                    \/ tz = "invalid"
                 THEN bad
                 ELSE [ok |-> TRUE,
                       aware |-> (tz = "aware"),
                       days |-> Ordinal(y, mo, d),
                       secs |-> hh * 3600 + mi * 60 + ss
                                  - (IF tz = "aware" THEN TzSeconds(s, e) ELSE 0)]

\* (a - b).total_seconds()
TotalSeconds(a, b) == (a.days - b.days) * 86400 + (a.secs - b.secs)

(***************************************************************************)
(* Python values of start_time and end_time: a str, an int or None.        *)
(***************************************************************************)
PyStr(s) == [t |-> "str", s |-> s, n |-> 0]

PyInt(n) == [t |-> "int", s |-> "", n |-> n]

PyNone == [t |-> "none", s |-> "", n |-> 0]

\* bool(x)
Truthy(x) ==
    IF x.t = "str" THEN x.s # ""
    ELSE IF x.t = "int" THEN x.n # 0
    ELSE FALSE

\* x < y; "TypeError" when Python has no order between the two types
ValueLt(x, y) ==
    IF x.t = "str" /\ y.t = "str" THEN (IF StrLt(x.s, y.s) THEN "lt" ELSE "ge")
    ELSE IF x.t = "int" /\ y.t = "int" THEN (IF x.n < y.n THEN "lt" ELSE "ge")
    ELSE "TypeError"

(***************************************************************************)
(* The video dicts.  BaseKeys are the keys parse_video_metadata writes     *)
(* that the grouper reads; ExtraKeys are the keys the grouper adds to a    *)
(* combined entry.                                                         *)
(***************************************************************************)
BaseKeys == {"filename", "s3_key", "procedure_name", "room", "case_date",
             "users", "start_time", "end_time", "duration_seconds"}

ExtraKeys == {"is_concatenated", "segment_count", "segments", "feed_names"}

Video(fn, key, proc, rm, date, us, st, et, dur) ==
    [keys |-> BaseKeys,
     filename |-> fn, s3_key |-> key, procedure_name |-> proc, room |-> rm,
     case_date |-> date, users |-> us, start_time |-> st, end_time |-> et,
     duration_seconds |-> dur,
     is_concatenated |-> FALSE, segment_count |-> 0, segments |-> <<>>,
     feed_names |-> <<>>]

\* the dict without key k (the field keeps a fixed filler value)
Without(v, k) ==
    LET w == [v EXCEPT !.keys = @ \ {k}]
    IN  IF k \in {"start_time", "end_time"} THEN [w EXCEPT ![k] = PyNone]
        ELSE IF k = "users" THEN [w EXCEPT ![k] = <<>>]
        ELSE IF k = "duration_seconds" THEN [w EXCEPT ![k] = 0]
        ELSE [w EXCEPT ![k] = ""]

\* v.get(k, dflt)
Get(v, k, dflt) == IF k \in v.keys THEN v[k] ELSE dflt

\* a.get(k) == b.get(k), where a missing key reads as None
SameGet(a, b, k) ==
    /\ (k \in a.keys) = (k \in b.keys)
    /\ (k \in a.keys) => a[k] = b[k]

(***************************************************************************)
(* group_related_videos, part 1: the sort.                                 *)
(***************************************************************************)
\* the sort key of the lambda
SortKey(v) ==
    <<Get(v, "case_date", ""), Get(v, "procedure_name", ""),
      Get(v, "room", ""), Get(v, "start_time", PyStr(""))>>

\* a < b for two key tuples: the first unequal component decides
KeyLt(a, b) ==
    IF a[1] # b[1] THEN (IF StrLt(a[1], b[1]) THEN "lt" ELSE "ge")
    ELSE IF a[2] # b[2] THEN (IF StrLt(a[2], b[2]) THEN "lt" ELSE "ge")
    ELSE IF a[3] # b[3] THEN (IF StrLt(a[3], b[3]) THEN "lt" ELSE "ge")
    ELSE IF a[4] = b[4] THEN "ge"
    ELSE ValueLt(a[4], b[4])

\* sorted() raises TypeError exactly when two keys of the list cannot be
\* ordered: a comparison sort has to compare some such pair
SortRaises(h) ==
    \E a, b \in 1..Len(h) : KeyLt(SortKey(h[a]), SortKey(h[b])) = "TypeError"

\* variant of InsertRef that puts r in front of the references with an
\* equal key, so that ties come out in reverse input order
InsertRefBeforeTies(h, s, r) ==
    LET P == {k \in 1..Len(s) : KeyLt(SortKey(h[s[k]]), SortKey(h[r])) # "lt"}
    IN  IF P = {} THEN Append(s, r)
        ELSE LET k == CHOOSE x \in P : \A y \in P : x <= y
             IN  SubSeq(s, 1, k - 1) \o <<r>> \o SubSeq(s, k, Len(s))

\* insert reference r behind every reference whose key is not greater
InsertRef(h, s, r) ==
    LET P == {k \in 1..Len(s) : KeyLt(SortKey(h[r]), SortKey(h[s[k]])) = "lt"}
    IN  IF P = {} THEN Append(s, r)
        ELSE LET k == CHOOSE x \in P : \A y \in P : x <= y
             IN  SubSeq(s, 1, k - 1) \o <<r>> \o SubSeq(s, k, Len(s))

RECURSIVE SortedPrefix(_, _)
SortedPrefix(h, n) ==
    IF n = 0 THEN <<>> ELSE InsertRef(h, SortedPrefix(h, n - 1), n)

\* sorted(videos, key=...): stable, as references into h
Sorted(h) == SortedPrefix(h, Len(h))

(***************************************************************************)
(* group_related_videos, part 2: the five predicates of the scan.          *)
(***************************************************************************)
\* variants of SecondsClose: a strict bound, and one that rejects overlap
SecondsCloseStrict(diff) == diff < 3600

SecondsCloseAfterOnly(diff) == diff >= 0 /\ diff <= 3600

SecondsClose(diff) == diff <= 3600

\* variant of TimeClose in which a timestamp without a date component
\* blocks the merge
TimeCloseNeedsDate(previous, current) ==
    LET prev_end == Get(previous, "end_time", PyStr(""))
        curr_start == Get(current, "start_time", PyStr(""))
    IN  IF ~(Truthy(prev_end) /\ Truthy(curr_start)) THEN FALSE
        ELSE IF prev_end.t # "str" THEN TRUE
        ELSE IF ~Contains(prev_end.s, "T") THEN FALSE
        ELSE IF curr_start.t # "str" THEN TRUE
        ELSE IF ~Contains(curr_start.s, "T") THEN FALSE
        ELSE LET prev_end_dt == FromIsoFormat(prev_end.s)
                 curr_start_dt == FromIsoFormat(curr_start.s)
             IN  IF ~prev_end_dt.ok \/ ~curr_start_dt.ok THEN TRUE
                 ELSE IF prev_end_dt.aware # curr_start_dt.aware THEN TRUE
                 ELSE SecondsClose(TotalSeconds(curr_start_dt, prev_end_dt))

\* the try block computing time_close
TimeClose(previous, current) ==
    LET prev_end == Get(previous, "end_time", PyStr(""))
        curr_start == Get(current, "start_time", PyStr(""))
    IN  IF ~(Truthy(prev_end) /\ Truthy(curr_start)) THEN FALSE
        ELSE IF prev_end.t # "str" THEN TRUE          \* TypeError, caught
        ELSE IF ~Contains(prev_end.s, "T") THEN TRUE
        ELSE IF curr_start.t # "str" THEN TRUE        \* TypeError, caught
        ELSE IF ~Contains(curr_start.s, "T") THEN TRUE
        ELSE LET prev_end_dt == FromIsoFormat(prev_end.s)
                 curr_start_dt == FromIsoFormat(curr_start.s)
             IN  IF ~prev_end_dt.ok \/ ~curr_start_dt.ok THEN TRUE  \* ValueError
                 ELSE IF prev_end_dt.aware # curr_start_dt.aware THEN TRUE
                 ELSE SecondsClose(TotalSeconds(curr_start_dt, prev_end_dt))

\* variant of ShouldGroup that does not compare case_date
ShouldGroupAnyDate(previous, current) ==
    /\ SameGet(current, previous, "procedure_name")
    /\ SameGet(current, previous, "room")
    /\ SameGet(current, previous, "users")
    /\ TimeClose(previous, current)

\* variant of ShouldGroup that compares users as sets
ShouldGroupUsersAsSet(previous, current) ==
    /\ SameGet(current, previous, "procedure_name")
    /\ SameGet(current, previous, "room")
    /\ SameGet(current, previous, "case_date")
    /\ {current.users[k] : k \in 1..Len(current.users)}
         = {previous.users[k] : k \in 1..Len(previous.users)}
    /\ TimeClose(previous, current)

\* variant of ShouldGroup that does not compare users
ShouldGroupAnyUsers(previous, current) ==
    /\ SameGet(current, previous, "procedure_name")
    /\ SameGet(current, previous, "room")
    /\ SameGet(current, previous, "case_date")
    /\ TimeClose(previous, current)

\* the five predicates of "if same_procedure and same_room and ..."
ShouldGroup(previous, current) ==
    /\ SameGet(current, previous, "procedure_name")
    /\ SameGet(current, previous, "room")
    /\ SameGet(current, previous, "case_date")
    /\ SameGet(current, previous, "users")
    /\ TimeClose(previous, current)

\* variant of ScanStep that compares with the first record of the group
ScanStepAnchor(h, s, i, cur, grp) ==
    IF ShouldGroup(h[cur[1]], h[s[i]])
    THEN [current_group |-> Append(cur, s[i]), grouped |-> grp]
    ELSE [current_group |-> <<s[i]>>, grouped |-> Append(grp, cur)]

\* one iteration of the scan loop at position i of the sorted list s
ScanStep(h, s, i, cur, grp) ==
    IF ShouldGroup(h[s[i - 1]], h[s[i]])
    THEN [current_group |-> Append(cur, s[i]), grouped |-> grp]
    ELSE [current_group |-> <<s[i]>>, grouped |-> Append(grp, cur)]

\* variant of CloseGroups that forgets the open group
CloseGroupsDropLast(grp, cur) == grp

\* "Add the last group"
CloseGroups(grp, cur) == Append(grp, cur)

RECURSIVE ScanLoop(_, _, _, _, _)
ScanLoop(h, s, i, cur, grp) ==
    IF i > Len(s) THEN CloseGroups(grp, cur)
    ELSE LET n == ScanStep(h, s, i, cur, grp)
         IN  ScanLoop(h, s, i + 1, n.current_group, n.grouped)

(***************************************************************************)
(* group_related_videos, part 3: the combined entry of a group.            *)
(***************************************************************************)
FeedName(v) ==
    LET filename == Get(v, "filename", "")
    IN  IF Contains(filename, "V") THEN Suffix(BeforeDot(filename), 2) ELSE "?"

FeedNames(h, group) == [k \in 1..Len(group) |-> FeedName(h[group[k]])]

\* [v.get(k, '') for v in group if v.get(k)]
TruthyTimes(h, group, k) ==
    SelectSeq([j \in 1..Len(group) |-> Get(h[group[j]], k, PyStr(""))], Truthy)

MixedTypes(xs) == \E a, b \in 1..Len(xs) : xs[a].t # xs[b].t

MinValue(xs) ==
    CHOOSE x \in {xs[k] : k \in 1..Len(xs)} :
        \A k \in 1..Len(xs) : ValueLt(xs[k], x) # "lt"

MaxValue(xs) ==
    CHOOSE x \in {xs[k] : k \in 1..Len(xs)} :
        \A k \in 1..Len(xs) : ValueLt(x, xs[k]) # "lt"

RECURSIVE SumDuration(_, _)
\* variant of MaxDuration that adds the durations up
SumDuration(h, group) ==
    IF group = <<>> THEN 0
    ELSE Get(h[Head(group)], "duration_seconds", 0) + SumDuration(h, Tail(group))

MaxDuration(h, group) ==
    LET D == {Get(h[group[k]], "duration_seconds", 0) : k \in 1..Len(group)}
    IN  CHOOSE d \in D : \A e \in D : e <= d

\* the exception building the combined entry raises, "" when it does not
CombineError(h, group) ==
    IF "procedure_name" \notin h[group[1]].keys THEN "KeyError"
    ELSE IF MixedTypes(TruthyTimes(h, group, "start_time")) THEN "TypeError"
    ELSE IF MixedTypes(TruthyTimes(h, group, "end_time")) THEN "TypeError"
    ELSE ""

CombinedEntry(h, group) ==
    LET first == h[group[1]]
        feed_names == FeedNames(h, group)
        all_start_times == TruthyTimes(h, group, "start_time")
        all_end_times == TruthyTimes(h, group, "end_time")
    IN  [first EXCEPT
           !.keys = @ \cup ExtraKeys
                      \cup {"filename", "start_time", "end_time",
                            "duration_seconds"},
           !.is_concatenated = TRUE,
           !.segment_count = Len(group),
           !.segments = group,
           !.feed_names = feed_names,
           !.filename = Prefix(first.procedure_name, 30) \o "... ("
                          \o JoinComma(feed_names) \o ")",
           !.start_time = IF all_start_times = <<>> THEN PyStr("N/A")
                          ELSE MinValue(all_start_times),
           !.end_time = IF all_end_times = <<>> THEN PyStr("N/A")
                        ELSE MaxValue(all_end_times),
           !.duration_seconds = MaxDuration(h, group)]

\* the element appended to combined_videos for a group: the dict itself
\* (alias = its reference) or a fresh dict (alias = 0)
Emitted(h, group) ==
    IF Len(group) = 1
    THEN [alias |-> group[1], dict |-> h[group[1]]]
    ELSE [alias |-> 0, dict |-> CombinedEntry(h, group)]

\* variant of AfterCombine without the copy: the writes land in group[0]
AfterCombineInPlace(h, group) ==
    [h EXCEPT ![group[1]] = CombinedEntry(h, group)]

\* variant of AfterCombine that marks every segment of the group
AfterCombineMarkSegments(h, group) ==
    [r \in 1..Len(h) |->
        IF \E k \in 1..Len(group) : group[k] = r
        THEN [h[r] EXCEPT !.keys = @ \cup {"is_concatenated"},
                          !.is_concatenated = TRUE]
        ELSE h[r]]

\* the caller's dicts after a combined entry was built: group[0].copy()
\* keeps every write away from them
AfterCombine(h, group) == h

(***************************************************************************)
(* The inputs.  Each specification draws the caller's list from one of     *)
(* four small libraries of video dicts.                                    *)
(***************************************************************************)
U12 == <<"EMR1", "EMR2">>

U21 == <<"EMR2", "EMR1">>

\* a full timestamp on the given date
At(date, hhmm) == PyStr(date \o "T" \o hhmm \o ":00")

Day1 == "2025-01-10"

Day2 == "2025-01-11"

\* cases that differ in date, room and users, with ties on the sort key; one
\* has the time-only timestamps parse_video_metadata writes
LibraryVideos ==
    {Video("49V1.mp4", "k1", "Lap", "OR1", Day1, U12,
           At(Day1, "09:00"), At(Day1, "10:00"), 100),
     Video("49V2.mp4", "k2", "Lap", "OR1", Day1, U12,
           At(Day1, "09:00"), At(Day1, "10:30"), 200),
     Video("50V1.mp4", "k3", "Lap", "OR1", Day1, U21,
           At(Day1, "09:00"), At(Day1, "10:00"), 100),
     Video("51V1.mp4", "k4", "Lap", "OR1", Day2, U12,
           PyStr("09:00:00"), PyStr("10:00:00"), 100),
     Video("52V1.mp4", "k5", "Lap", "OR2", Day1, U12,
           At(Day1, "09:00"), At(Day1, "10:00"), 100),
     Video("49V3.mp4", "k6", "Lap", "OR1", Day1, U12,
           At(Day1, "10:45"), At(Day1, "11:30"), 300),
     Video("cam.mp4", "k7", "Lap", "OR1", Day1, U12,
           At(Day1, "12:45"), At(Day1, "13:00"), 50),
     Video("53V1.mp4", "k8", "Lap", "OR1", Day1, <<"EMR3">>,
           At(Day1, "09:30"), At(Day1, "10:15"), 100)}

\* one case, recordings at different times of the day
Feed(fn, key, st, et, dur) ==
    Video(fn, key, "Lap", "OR1", Day1, U12, st, et, dur)

TimeVideos ==
    {Feed("60V1.mp4", "t1", At(Day1, "09:00"), At(Day1, "10:00"), 100),
     Feed("60V2.mp4", "t2", At(Day1, "09:30"), At(Day1, "11:00"), 200),
     Feed("60V3.mp4", "t3", At(Day1, "09:45"), At(Day1, "10:15"), 300),
     Feed("61V1.mp4", "t4", At(Day1, "10:45"), At(Day1, "11:30"), 100),
     Feed("61V2.mp4", "t5", At(Day1, "11:00"), At(Day1, "11:10"), 100),
     Feed("61V3.mp4", "t6", At(Day1, "11:05"), At(Day1, "11:20"), 100),
     Feed("62V1.mp4", "t7", At(Day1, "12:00"), At(Day1, "12:30"), 100)}

\* one case, dicts with missing keys or empty timestamps
ShapeVideos ==
    {Feed("70V1.mp4", "s1", At(Day1, "09:00"), At(Day1, "10:00"), 100),
     Feed("70V2.mp4", "s2", At(Day1, "12:00"), At(Day1, "12:30"), 200),
     Without(Feed("71V1.mp4", "s3", At(Day1, "09:00"), PyNone, 100), "end_time"),
     Feed("71V2.mp4", "s4", PyStr(""), At(Day1, "12:30"), 100),
     Without(Feed("72V1.mp4", "s5", At(Day1, "09:00"), At(Day1, "10:00"), 100),
             "room"),
     Without(Feed("72V2.mp4", "s6", At(Day1, "09:00"), At(Day1, "10:00"), 100),
             "procedure_name"),
     Without(Feed("72V3.mp4", "s7", PyNone, At(Day1, "10:00"), 100),
             "start_time")}

\* one case, timestamps that are not ISO text or not text at all
TypeVideos ==
    {Feed("70V1.mp4", "s1", At(Day1, "09:00"), At(Day1, "10:00"), 100),
     Feed("70V2.mp4", "s2", At(Day1, "12:00"), At(Day1, "12:30"), 200),
     Feed("73V1.mp4", "y3", PyNone, At(Day1, "10:00"), 100),
     Feed("73V2.mp4", "y4", At(Day1, "09:00"), PyInt(5), 100),
     Feed("74V1.mp4", "y5", PyStr("2025-01-10Tnoon"), PyStr("N/A"), 100),
     Feed("74V2.mp4", "y6", PyStr("2025-01-10T12:00:00+00:00"),
          PyStr("2025-01-10T12:30:00+00:00"), 100),
     Feed("75V1.mp4", "y7", PyStr("12:00:00"), PyStr("12:30:00"), 100)}

RECURSIVE ListsOf(_, _)
\* the lists of length n over the set S
\* one case as parse_video_metadata writes it: times of the day without a
\* date, the placeholder "N/A", an empty text, beside two records that kept
\* their full timestamps; file names with several dots or without a feed
FeedVideos ==
    {Feed("49V1.mp4", "f1", PyStr("09:00:00"), PyStr("10:00:00"), 100),
     Feed("2025.49V3.mp4", "f2", PyStr("13:00:00"), PyStr("14:00:00"), 200),
     Feed("clip.MOV", "f3", PyStr("08:00:00"), PyStr("N/A"), 100),
     Feed("cam.mp4", "f4", At(Day1, "15:00"), At(Day1, "16:00"), 100),
     Feed("50V2.mp4", "f5", PyStr(""), PyStr("11:00:00"), 100),
     Feed("50V1.mp4", "f6", At(Day1, "17:30"), At(Day1, "18:00"), 100),
     Feed("V", "f7", PyStr("N/A"), PyStr("09:30:00"), 100)}

ListsOf(S, n) ==
    IF n = 0 THEN {<<>>}
    ELSE {Append(l, x) : l \in ListsOf(S, n - 1), x \in S}

ListsUpTo(S, n) == UNION {ListsOf(S, k) : k \in 0..n}

(***************************************************************************)
(* The state: the caller's list, the locals of group_related_videos, the   *)
(* outcome of the call and of the call before it.                          *)
(***************************************************************************)
VARIABLES videos, pc, sorted_videos, i, current_group, grouped, g,
          combined_videos, result, error, calls, previous_outcome

\* The application around the function: the session state, the widgets of
\* the sidebar, the response the "Fetch Videos" handler holds and the
\* handler's position.
VARIABLES auth_token, video_list, start_str, end_str, filter_mode,
          video_data, handler

appVars == <<auth_token, video_list, start_str, end_str, filter_mode,
             video_data, handler>>

\* The weekly script: the position of main(), its locals, the metadata file
\* written by export_metadata_json and the counters of download_videos.
VARIABLES main_at, token, all_videos, filtered_videos, json_file,
          download_choice, downloaded, failed

mainVars == <<main_at, token, all_videos, filtered_videos, json_file,
              download_choice, downloaded, failed>>

callVars == <<videos, pc, sorted_videos, i, current_group, grouped, g,
              combined_videos, result, error, calls, previous_outcome>>

vars == <<videos, pc, sorted_videos, i, current_group, grouped, g,
          combined_videos, result, error, calls, previous_outcome,
          auth_token, video_list, start_str, end_str, filter_mode,
          video_data, handler,
          main_at, token, all_videos, filtered_videos, json_file,
          download_choice, downloaded, failed>>

\* the dict an element of the returned list denotes
Deref(h, e) == IF e.alias # 0 THEN h[e.alias] ELSE e.dict

\* an operation as the caller reads it: the dict and the dicts its
\* segments refer to
OpValue(h, e) ==
    LET d == Deref(h, e)
    IN  [dict |-> [d EXCEPT !.segments = <<>>],
         segs |-> [k \in 1..Len(d.segments) |-> h[d.segments[k]]]]

OutValue(h, out) == [k \in 1..Len(out) |-> OpValue(h, out[k])]

NoOutcome == [status |-> "none", error |-> "", value |-> <<>>]

Outcome == [status |-> pc, error |-> error, value |-> OutValue(videos, result)]

InitLocals ==
    /\ pc = "idle"
    /\ sorted_videos = <<>>
    /\ i = 0
    /\ current_group = <<>>
    /\ grouped = <<>>
    /\ g = 0
    /\ combined_videos = <<>>
    /\ result = <<>>
    /\ error = ""
    /\ calls = 0
    /\ previous_outcome = NoOutcome
    /\ video_data = <<>>
    /\ handler = "idle"

\* "if 'video_list' not in st.session_state: ..." (auth_token "" is None)
InitSession ==
    /\ auth_token = ""
    /\ video_list = <<>>

\* main() of the weekly script before it runs
InitMain ==
    /\ main_at = "start"
    /\ token = ""
    /\ all_videos = <<>>
    /\ filtered_videos = <<>>
    /\ json_file = <<>>
    /\ download_choice = ""
    /\ downloaded = 0
    /\ failed = 0

\* the function called on its own, outside the application and the script
NoApp ==
    /\ InitSession
    /\ InitMain
    /\ start_str = ""
    /\ end_str = ""
    /\ filter_mode = ""

Init == videos \in ListsUpTo(LibraryVideos, MaxLen) /\ InitLocals /\ NoApp

InitTime == videos \in ListsUpTo(TimeVideos, MaxLen) /\ InitLocals /\ NoApp

InitShape == videos \in ListsUpTo(ShapeVideos, MaxLen) /\ InitLocals /\ NoApp

InitTypes == videos \in ListsUpTo(TypeVideos, MaxLen) /\ InitLocals /\ NoApp

InitFeeds == videos \in ListsUpTo(FeedVideos, MaxLen) /\ InitLocals /\ NoApp

(***************************************************************************)
(* The steps of a call of group_related_videos(videos).                    *)
(***************************************************************************)
\* the call and its first statement, "if not videos: return []"
Call ==
    /\ pc \in {"idle", "done", "raised"}
    /\ calls < MaxCalls
    /\ calls' = calls + 1
    /\ previous_outcome' = IF pc = "idle" THEN NoOutcome ELSE Outcome
    /\ sorted_videos' = <<>>
    /\ i' = 0
    /\ current_group' = <<>>
    /\ grouped' = <<>>
    /\ g' = 0
    /\ combined_videos' = <<>>
    /\ result' = <<>>
    /\ error' = ""
    /\ pc' = IF videos = <<>> THEN "done" ELSE "sort"
    /\ UNCHANGED videos
    /\ UNCHANGED appVars
    /\ UNCHANGED mainVars

Raise(e) ==
    /\ pc' = "raised"
    /\ error' = e

\* sorted(...), then the first record opens the current group
Sort ==
    /\ pc = "sort"
    /\ IF SortRaises(videos)
       THEN /\ Raise("TypeError")
            /\ UNCHANGED <<sorted_videos, i, current_group>>
       ELSE /\ sorted_videos' = Sorted(videos)
            /\ current_group' = <<sorted_videos'[1]>>
            /\ i' = 2
            /\ pc' = "scan"
            /\ UNCHANGED error
    /\ UNCHANGED <<videos, grouped, g, combined_videos, result, calls,
                   previous_outcome>>
    /\ UNCHANGED appVars
    /\ UNCHANGED mainVars

\* one iteration of "for i in range(1, len(sorted_videos))"
Scan ==
    /\ pc = "scan"
    /\ i <= Len(sorted_videos)
    /\ LET n == ScanStep(videos, sorted_videos, i, current_group, grouped)
       IN  /\ current_group' = n.current_group
           /\ grouped' = n.grouped
    /\ i' = i + 1
    /\ UNCHANGED <<videos, pc, sorted_videos, g, combined_videos, result,
                   error, calls, previous_outcome>>
    /\ UNCHANGED appVars
    /\ UNCHANGED mainVars

\* the loop is over: "grouped.append(current_group)"
CloseLast ==
    /\ pc = "scan"
    /\ i > Len(sorted_videos)
    /\ grouped' = CloseGroups(grouped, current_group)
    /\ g' = 1
    /\ pc' = "combine"
    /\ UNCHANGED <<videos, sorted_videos, i, current_group, combined_videos,
                   result, error, calls, previous_outcome>>
    /\ UNCHANGED appVars
    /\ UNCHANGED mainVars

\* one iteration of "for group in grouped"
Combine ==
    /\ pc = "combine"
    /\ g <= Len(grouped)
    /\ LET group == grouped[g]
       IN  IF Len(group) > 1 /\ CombineError(videos, group) # ""
           THEN /\ Raise(CombineError(videos, group))
                /\ UNCHANGED <<videos, combined_videos, g>>
           ELSE /\ combined_videos' =
                      Append(combined_videos, Emitted(videos, group))
                /\ videos' = IF Len(group) > 1
                             THEN AfterCombine(videos, group)
                             ELSE videos
                /\ g' = g + 1
                /\ UNCHANGED <<pc, error>>
    /\ UNCHANGED <<sorted_videos, i, current_group, grouped, result, calls,
                   previous_outcome>>
    /\ UNCHANGED appVars
    /\ UNCHANGED mainVars

\* "return combined_videos"
Return ==
    /\ pc = "combine"
    /\ g > Len(grouped)
    /\ result' = combined_videos
    /\ pc' = "done"
    /\ UNCHANGED <<videos, sorted_videos, i, current_group, grouped, g,
                   combined_videos, error, calls, previous_outcome>>
    /\ UNCHANGED appVars
    /\ UNCHANGED mainVars

Next == Call \/ Sort \/ Scan \/ CloseLast \/ Combine \/ Return

Spec == Init /\ [][Next]_vars

SpecTime == InitTime /\ [][Next]_vars

SpecShape == InitShape /\ [][Next]_vars

SpecTypes == InitTypes /\ [][Next]_vars

SpecFeeds == InitFeeds /\ [][Next]_vars

(***************************************************************************)
(* parse_video_metadata: the records made of an Explorer API response.     *)
(***************************************************************************)
MaxCases == 2

\* position of the first occurrence of the one-character c in s at or after
\* position a, 0 when there is none
FindFrom(s, c, a) ==
    LET P == {k \in a..Len(s) : Ch(s, k) = c}
    IN  IF P = {} THEN 0 ELSE CHOOSE k \in P : \A j \in P : k <= j

\* s.split('T')[1], for a text with a 'T'
SplitT1(s) ==
    LET a == FindFrom(s, "T", 1)
        b == FindFrom(s, "T", a + 1)
    IN  SubSeq(s, a + 1, IF b = 0 THEN Len(s) ELSE b - 1)

\* variant of ParseTime that keeps the timestamp as the API gives it
ParseTimeKeepDate(t) == t

\* t.split('T')[1] if 'T' in t else t
ParseTime(t) == IF Contains(t, "T") THEN SplitT1(t) ELSE t

\* urlparse(s).path for "scheme://netloc/path" (no query, no fragment); a
\* text without "://" is all path
UrlPath(s) ==
    LET P == {k \in 1..(Len(s) - 2) : SubSeq(s, k, k + 2) = "://"}
    IN  IF P = {} THEN s
        ELSE LET a == CHOOSE k \in P : \A j \in P : k <= j
                 b == FindFrom(s, "/", a + 3)
             IN  IF b = 0 THEN "" ELSE SubSeq(s, b, Len(s))

RECURSIVE LStripSlash(_)
\* s.lstrip('/')
LStripSlash(s) ==
    IF Len(s) > 0 /\ Ch(s, 1) = "/" THEN LStripSlash(SubSeq(s, 2, Len(s))) ELSE s

\* s.split('/')[-1]
LastSegment(s) ==
    LET P == {k \in 1..Len(s) : Ch(s, k) = "/"}
    IN  IF P = {} THEN s
        ELSE SubSeq(s, (CHOOSE k \in P : \A j \in P : j <= k) + 1, Len(s))

\* a media file of the response; keys tells which of startTime and endTime
\* the JSON object has
Media(loc, st, et) ==
    [keys |-> {"startTime", "endTime"}, s3Location |-> loc,
     startTime |-> st, endTime |-> et]

MediaNoEnd(loc, st) ==
    [keys |-> {"startTime"}, s3Location |-> loc, startTime |-> st,
     endTime |-> ""]

Case(procs, rm, date, us, dur, media) ==
    [procedures |-> procs, room |-> rm, caseDate |-> date, users |-> us,
     videoDurationSeconds |-> dur, mediaFiles |-> media]

\* the record of one media file of a case, with the keys
\* group_related_videos and the surgeon filter read (video_id, s3_location,
\* specialties and upload_date are carried along untouched and left out)
ParsedVideo(case, media) ==
    LET s3_location == media.s3Location
        start_time == IF "startTime" \in media.keys THEN media.startTime ELSE "N/A"
        end_time == IF "endTime" \in media.keys THEN media.endTime ELSE "N/A"
        s3_key == IF s3_location # "" THEN LStripSlash(UrlPath(s3_location)) ELSE ""
        filename == IF s3_location # "" THEN LastSegment(s3_key) ELSE "unknown.mp4"
    IN  Video(filename, s3_key,
              IF case.procedures # <<>> THEN JoinComma(case.procedures) ELSE "N/A",
              case.room, case.caseDate, case.users,
              PyStr(ParseTime(start_time)), PyStr(ParseTime(end_time)),
              case.videoDurationSeconds)

RECURSIVE parse_video_metadata(_)
\* the two nested loops
parse_video_metadata(data) ==
    IF data = <<>> THEN <<>>
    ELSE LET case == Head(data)
         IN  [k \in 1..Len(case.mediaFiles) |->
                  ParsedVideo(case, case.mediaFiles[k])]
               \o parse_video_metadata(Tail(data))

\* the cases an API response is made of: two media of one case hours apart,
\* a second entry of the same case without endTime, and a case of another
\* day and surgeon with a time of the day and no s3Location
Cases ==
    {Case(<<"Lap">>, "OR1", Day1, U12, 100,
          <<Media("s3://bucket/v1/49V1.mp4",
                  Day1 \o "T09:00:00", Day1 \o "T10:00:00"),
            Media("s3://bucket/v1/49V2.mp4",
                  Day1 \o "T13:00:00", Day1 \o "T14:00:00")>>),
     Case(<<"Lap">>, "OR1", Day1, U12, 200,
          <<MediaNoEnd("s3://bucket/v2/49V3.mp4", Day1 \o "T18:00:00")>>),
     Case(<<"Chole", "Hernia">>, "OR2", Day2, <<"EMR3">>, 50,
          <<Media("", "09:30:00", "10:00:00")>>)}

\* what fetch_videos_from_explorer may return; <<>> is also its answer when
\* the request fails
Responses == ListsUpTo(Cases, MaxCases)

(***************************************************************************)
(* The sidebar of the application: Authenticate and Fetch Videos.          *)
(***************************************************************************)
\* the identifiers a surgeon_config.py may list
SurgeonIds == {"EMR1", "EMR3"}

\* the configured surgeons of surgeon_config.py
MY_SURGEON_IDS == {"EMR1"}

ElementsOf(xs) == {xs[k] : k \in 1..Len(xs)}

\* any(surgeon_id in video_users for surgeon_id in ids), with
\* video_users = v.get('users', []) and ids the configured surgeons
MatchesMySurgeons(v, ids) ==
    \E surgeon_id \in ids : surgeon_id \in ElementsOf(Get(v, "users", <<>>))

FilterModes == {"My Surgeons Only", "All Surgeons"}

\* the date inputs, as strftime('%Y-%m-%d') writes them
DateRanges == {<<Day1, Day1>>, <<Day1, Day2>>}

StrLe(a, b) == a = b \/ StrLt(a, b)

\* [v for v in all_videos if start_str <= v.get('case_date', '') <= end_str]
InDateRange(v) ==
    /\ StrLe(start_str, Get(v, "case_date", ""))
    /\ StrLe(Get(v, "case_date", ""), end_str)

\* the surgeon filter by mode
FilteredVideos ==
    IF filter_mode = "My Surgeons Only"
    THEN SelectSeq(result, LAMBDA e : MatchesMySurgeons(Deref(videos, e), MY_SURGEON_IDS))
    ELSE result

InitApp ==
    /\ videos = <<>>
    /\ InitLocals
    /\ InitSession
    /\ InitMain
    /\ \E range \in DateRanges : start_str = range[1] /\ end_str = range[2]
    /\ filter_mode \in FilterModes

\* the "Authenticate" button: get_auth_token() gives a token or None
Authenticate ==
    /\ handler = "idle"
    /\ \E t \in {"", "token"} :
           auth_token' = IF t # "" THEN t ELSE auth_token
    /\ UNCHANGED <<videos, pc, sorted_videos, i, current_group, grouped, g,
                   combined_videos, result, error, calls, previous_outcome,
                   video_list, start_str, end_str, filter_mode, video_data,
                   handler>>
    /\ UNCHANGED mainVars

\* variant of FetchVideos in which an empty response empties the list on
\* display
FetchVideosClearsOnEmpty ==
    /\ handler = "idle"
    /\ auth_token # ""
    /\ \E data \in Responses :
          /\ video_data' = data
          /\ IF data = <<>>
             THEN /\ video_list' = <<>>
                  /\ UNCHANGED <<videos, pc, sorted_videos, i, current_group,
                                 grouped, g, combined_videos, result, error,
                                 handler>>
             ELSE /\ videos' = SelectSeq(parse_video_metadata(data), InDateRange)
                  /\ sorted_videos' = <<>>
                  /\ i' = 0
                  /\ current_group' = <<>>
                  /\ grouped' = <<>>
                  /\ g' = 0
                  /\ combined_videos' = <<>>
                  /\ result' = <<>>
                  /\ error' = ""
                  /\ pc' = IF videos' = <<>> THEN "done" ELSE "sort"
                  /\ handler' = "grouping"
                  /\ UNCHANGED video_list
    /\ UNCHANGED <<calls, previous_outcome, auth_token, start_str, end_str,
                   filter_mode>>
    /\ UNCHANGED mainVars

\* the "Fetch Videos" button up to the call of group_related_videos: the
\* request, the parse, the filter by case date and the call's first
\* statement; an empty response ends the handler
FetchVideos ==
    /\ handler = "idle"
    /\ auth_token # ""
    /\ \E data \in Responses :
          /\ video_data' = data
          /\ IF data = <<>>
             THEN UNCHANGED <<videos, pc, sorted_videos, i, current_group,
                              grouped, g, combined_videos, result, error,
                              handler>>
             ELSE /\ videos' = SelectSeq(parse_video_metadata(data), InDateRange)
                  /\ sorted_videos' = <<>>
                  /\ i' = 0
                  /\ current_group' = <<>>
                  /\ grouped' = <<>>
                  /\ g' = 0
                  /\ combined_videos' = <<>>
                  /\ result' = <<>>
                  /\ error' = ""
                  /\ pc' = IF videos' = <<>> THEN "done" ELSE "sort"
                  /\ handler' = "grouping"
    /\ UNCHANGED <<calls, previous_outcome, auth_token, video_list, start_str,
                   end_str, filter_mode>>
    /\ UNCHANGED mainVars

\* the rest of the handler once the call has returned: the surgeon filter
\* and "st.session_state.video_list = filtered_videos"
StoreVideos ==
    /\ handler = "grouping"
    /\ pc = "done"
    /\ video_list' = OutValue(videos, FilteredVideos)
    /\ handler' = "idle"
    /\ UNCHANGED <<videos, pc, sorted_videos, i, current_group, grouped, g,
                   combined_videos, result, error, calls, previous_outcome,
                   auth_token, start_str, end_str, filter_mode, video_data>>
    /\ UNCHANGED mainVars

NextApp ==
    \/ Authenticate
    \/ FetchVideos
    \/ Sort \/ Scan \/ CloseLast \/ Combine \/ Return
    \/ StoreVideos

SpecApp == InitApp /\ [][NextApp]_vars

(***************************************************************************)
(* weekly_automation_notebook.py: main(), the scheduled weekly export.     *)
(***************************************************************************)
\* "SURGEON_FILTER = []" and "USE_CASE_DATE = True"
SURGEON_FILTER == {}

USE_CASE_DATE == TRUE

\* what the user may type at the prompt
Answers == {"y", "Y", "n", ""}

\* answer.lower()
Lower(answer) == IF answer = "Y" THEN "y" ELSE answer

\* filter_videos(videos, surgeon_filter, use_case_date, start, end)
filter_videos(vs, surgeon_filter, use_case_date, start_date_str, end_date_str) ==
    LET by_surgeon == IF surgeon_filter # {}
                      THEN SelectSeq(vs, LAMBDA v : MatchesMySurgeons(v, surgeon_filter))
                      ELSE vs
    IN  IF use_case_date
        THEN SelectSeq(by_surgeon,
                       LAMBDA v : /\ StrLe(start_date_str, Get(v, "case_date", ""))
                                  /\ StrLe(Get(v, "case_date", ""), end_date_str))
        ELSE by_surgeon

InitBatch ==
    /\ videos = <<>>
    /\ InitLocals
    /\ InitSession
    /\ InitMain
    /\ filter_mode = ""
    /\ \E range \in DateRanges : start_str = range[1] /\ end_str = range[2]

\* every variable main() does not own
MainFrame == UNCHANGED <<callVars, auth_token, video_list, filter_mode, handler,
                         start_str, end_str>>

\* [1/5] get_auth_token(); "if not token: return"
MainAuthenticate ==
    /\ main_at = "start"
    /\ \E t \in {"", "token"} :
          /\ token' = t
          /\ main_at' = IF t = "" THEN "returned" ELSE "fetch"
    /\ UNCHANGED <<video_data, all_videos, filtered_videos, json_file,
                   download_choice, downloaded, failed>>
    /\ MainFrame

\* [2/5] fetch_videos_from_explorer(...); "if not video_data: return"
MainFetch ==
    /\ main_at = "fetch"
    /\ \E data \in Responses :
          /\ video_data' = data
          /\ main_at' = IF data = <<>> THEN "returned" ELSE "parse"
    /\ UNCHANGED <<token, all_videos, filtered_videos, json_file,
                   download_choice, downloaded, failed>>
    /\ MainFrame

\* [3/5] all_videos = parse_video_metadata(video_data)
MainParse ==
    /\ main_at = "parse"
    /\ all_videos' = parse_video_metadata(video_data)
    /\ main_at' = "filter"
    /\ UNCHANGED <<video_data, token, filtered_videos, json_file,
                   download_choice, downloaded, failed>>
    /\ MainFrame

\* [4/5] filtered_videos = filter_videos(...)
MainFilter ==
    /\ main_at = "filter"
    /\ filtered_videos' = filter_videos(all_videos, SURGEON_FILTER, USE_CASE_DATE,
                                        start_str, end_str)
    /\ main_at' = "export"
    /\ UNCHANGED <<video_data, token, all_videos, json_file, download_choice,
                   downloaded, failed>>
    /\ MainFrame

\* [5/5] json_file = export_metadata_json(filtered_videos, OUTPUT_DIR), then
\* the call of input(): main() waits at the prompt
MainExport ==
    /\ main_at = "export"
    /\ json_file' = filtered_videos
    /\ main_at' = "input"
    /\ UNCHANGED <<video_data, token, all_videos, filtered_videos,
                   download_choice, downloaded, failed>>
    /\ MainFrame

\* input(...) returns what the user typed; ".lower()" and the test for 'y'
MainReadAnswer ==
    /\ main_at = "input"
    /\ \E answer \in Answers :
          /\ download_choice' = Lower(answer)
          /\ main_at' = IF download_choice' = "y" THEN "download" ELSE "summary"
    /\ UNCHANGED <<video_data, token, all_videos, filtered_videos, json_file,
                   downloaded, failed>>
    /\ MainFrame

\* one iteration of the loop of download_videos: the download succeeds or
\* raises
MainDownload ==
    /\ main_at = "download"
    /\ IF downloaded + failed < Len(filtered_videos)
       THEN /\ \E ok \in BOOLEAN :
                  /\ downloaded' = IF ok THEN downloaded + 1 ELSE downloaded
                  /\ failed' = IF ok THEN failed ELSE failed + 1
            /\ UNCHANGED main_at
       ELSE /\ main_at' = "summary"
            /\ UNCHANGED <<downloaded, failed>>
    /\ UNCHANGED <<video_data, token, all_videos, filtered_videos, json_file,
                   download_choice>>
    /\ MainFrame

\* the summary and "return filtered_videos"
MainSummary ==
    /\ main_at = "summary"
    /\ main_at' = "returned"
    /\ UNCHANGED <<video_data, token, all_videos, filtered_videos, json_file,
                   download_choice, downloaded, failed>>
    /\ MainFrame

NextBatch ==
    \/ MainAuthenticate
    \/ MainFetch
    \/ MainParse
    \/ MainFilter
    \/ MainExport
    \/ MainReadAnswer
    \/ MainDownload
    \/ MainSummary

SpecBatch == InitBatch /\ [][NextBatch]_vars

(***************************************************************************)
(* The function as a whole, for comparing a call with calls on other       *)
(* lists: the outcome of group_related_videos(h).                          *)
(***************************************************************************)
Groups(h) ==
    LET s == Sorted(h) IN ScanLoop(h, s, 2, <<s[1]>>, <<>>)

GroupOutcome(h) ==
    IF h = <<>> THEN [status |-> "done", error |-> "", value |-> <<>>]
    ELSE IF SortRaises(h)
    THEN [status |-> "raised", error |-> "TypeError", value |-> <<>>]
    ELSE LET grp == Groups(h)
             E == {k \in 1..Len(grp) :
                     Len(grp[k]) > 1 /\ CombineError(h, grp[k]) # ""}
         IN  IF E # {}
             THEN [status |-> "raised",
                   error |-> CombineError(h, grp[CHOOSE k \in E :
                                                   \A j \in E : k <= j]),
                   value |-> <<>>]
             ELSE [status |-> "done", error |-> "",
                   value |-> OutValue(h, [k \in 1..Len(grp) |->
                                             Emitted(h, grp[k])])]

\* the stepwise call and the function agree
CallMatchesFunction ==
    pc \in {"done", "raised"} /\ calls = 1 => Outcome = GroupOutcome(videos)

(***************************************************************************)
(* Properties of the grouper.                                              *)
(***************************************************************************)
IsCombined(e) == e.alias = 0

\* the references of the records an emitted operation stands for
Members(e) == IF IsCombined(e) THEN e.dict.segments ELSE <<e.alias>>

\* v.get('segment_count', 1), as the application counts video files
SegmentCount(h, e) ==
    LET d == Deref(h, e)
    IN  IF "segment_count" \in d.keys THEN d.segment_count ELSE 1

RECURSIVE SegmentTotal(_, _)
SegmentTotal(h, out) ==
    IF out = <<>> THEN 0
    ELSE SegmentCount(h, Head(out)) + SegmentTotal(h, Tail(out))

RECURSIVE AllMembers(_)
AllMembers(out) ==
    IF out = <<>> THEN <<>> ELSE Members(Head(out)) \o AllMembers(Tail(out))

Count(xs, x) == Cardinality({k \in 1..Len(xs) : xs[k] = x})

SameBag(xs, ys) ==
    \A x \in {xs[k] : k \in 1..Len(xs)} \cup {ys[k] : k \in 1..Len(ys)} :
        Count(xs, x) = Count(ys, x)

\* C1: a call that returns emits no more operations than there are records,
\* and the records behind the operations (segment_count of a combined entry,
\* 1 for a single one) are the input records, each exactly once.
C1_CountConserved ==
    pc = "done" =>
        /\ Len(result) <= Len(videos)
        /\ SegmentTotal(videos, result) = Len(videos)
        /\ Len(AllMembers(result)) = Len(videos)
        /\ \A r \in 1..Len(videos) : Count(AllMembers(result), r) = 1

\* three records came back as one combined entry and one single record
C1_Witness ==
    /\ pc = "done"
    /\ Len(videos) = 3
    /\ Len(result) = 2
    /\ \E k \in 1..2 : IsCombined(result[k]) /\ result[k].dict.segment_count = 2

\* the lists that are a permutation of h
PermutationsOf(h) ==
    {[k \in 1..Len(h) |-> h[f[k]]] : f \in Permutations(1..Len(h))}

\* C2: grouping does not depend on the order of the input: the call on any
\* permutation of the list returns the same multiset of operations.
C2_OrderIndependent ==
    pc = "done" /\ calls = 1 =>
        \A p \in PermutationsOf(videos) :
            /\ GroupOutcome(p).status = "done"
            /\ SameBag(GroupOutcome(p).value, Outcome.value)

\* a record whose case_date no other record of the list has
LoneDate(r) ==
    \A q \in 1..Len(videos) :
        q # r => ~SameGet(videos[r], videos[q], "case_date")

\* C7: a record whose case_date differs from the case_date of every other
\* record is emitted as a single operation and is a segment of no combined
\* entry.
C7_LoneDateNeverMerged ==
    pc = "done" =>
        \A r \in 1..Len(videos) :
            LoneDate(r) =>
                /\ \E k \in 1..Len(result) : result[k].alias = r
                /\ \A k \in 1..Len(result) :
                       IsCombined(result[k]) =>
                           \A m \in 1..Len(result[k].dict.segments) :
                               result[k].dict.segments[m] # r

\* the lone record shares everything but the date with two records that
\* were merged, and its time-only timestamps leave time_close true
C7_Witness ==
    /\ pc = "done"
    /\ Len(videos) = 3
    /\ \E r \in 1..3 :
          /\ LoneDate(r)
          /\ \A q \in 1..3 : ShouldGroupAnyDate(videos[q], videos[r])
    /\ \E k \in 1..Len(result) : IsCombined(result[k])

\* C10: a second call on the same list ends as the call before it did, with
\* equal operations in the same order.
C10_Repeatable ==
    pc \in {"done", "raised"} /\ calls >= 2 => Outcome = previous_outcome

\* the second call returned, and its output has a combined entry
C10_Witness ==
    /\ pc = "done"
    /\ calls = 2
    /\ previous_outcome.status = "done"
    /\ \E k \in 1..Len(result) : IsCombined(result[k])

(***************************************************************************)
(* Properties of the scan: pairs of records adjacent in sort order.        *)
(***************************************************************************)
Prev(j) == videos[sorted_videos[j - 1]]

Cur(j) == videos[sorted_videos[j]]

\* the four equality predicates hold between positions j-1 and j
SameCase(j) ==
    /\ SameGet(Cur(j), Prev(j), "procedure_name")
    /\ SameGet(Cur(j), Prev(j), "room")
    /\ SameGet(Cur(j), Prev(j), "case_date")
    /\ SameGet(Cur(j), Prev(j), "users")

\* the scan put positions j-1 and j of the sorted list into one group
PairMerged(j) ==
    \E k \in 1..Len(grouped) :
        \E m \in 1..(Len(grouped[k]) - 1) :
            /\ grouped[k][m] = sorted_videos[j - 1]
            /\ grouped[k][m + 1] = sorted_videos[j]

\* x is a text with a date component that parses as a datetime
FullTimestamp(x) ==
    x.t = "str" /\ Contains(x.s, "T") /\ FromIsoFormat(x.s).ok

\* prev.end_time and cur.start_time are full timestamps that can be
\* subtracted (both naive or both with a UTC offset)
FullPair(j) ==
    /\ "end_time" \in Prev(j).keys
    /\ "start_time" \in Cur(j).keys
    /\ FullTimestamp(Prev(j).end_time)
    /\ FullTimestamp(Cur(j).start_time)
    /\ FromIsoFormat(Prev(j).end_time.s).aware
         = FromIsoFormat(Cur(j).start_time.s).aware

\* cur.start_time minus prev.end_time, in seconds
GapSeconds(j) ==
    TotalSeconds(FromIsoFormat(Cur(j).start_time.s),
                 FromIsoFormat(Prev(j).end_time.s))

ScanOver == pc \in {"combine", "done"}

\* C3: two records adjacent in sort order that agree on procedure_name, room,
\* case_date and users and whose prev.end_time and cur.start_time are full
\* timestamps are merged exactly when cur.start_time is at most 60 minutes
\* after prev.end_time; a list of two such records returns one combined
\* entry with segment_count 2, or else two single records.
C3_MergedIffWithinHour ==
    ScanOver =>
        /\ \A j \in 2..Len(sorted_videos) :
               SameCase(j) /\ FullPair(j) =>
                   (PairMerged(j) <=> GapSeconds(j) <= 60 * 60)
        /\ pc = "done" /\ Len(videos) = 2 /\ SameCase(2) /\ FullPair(2) =>
               IF GapSeconds(2) <= 60 * 60
               THEN /\ Len(result) = 1
                    /\ IsCombined(result[1])
                    /\ result[1].dict.segment_count = 2
               ELSE /\ Len(result) = 2
                    /\ ~IsCombined(result[1])
                    /\ ~IsCombined(result[2])

\* a pair 45 minutes apart came back as one combined entry
C3_Witness ==
    /\ pc = "done"
    /\ Len(videos) = 2
    /\ SameCase(2) /\ FullPair(2)
    /\ GapSeconds(2) = 45 * 60
    /\ Len(result) = 1

\* C5: when three records consecutive in sort order pass the five predicates
\* pairwise (first with second, second with third), all three are in one
\* combined entry; a list of exactly these three returns one combined entry
\* with segment_count 3, whatever the gap between the first and the third.
C5_ChainMerges ==
    pc = "done" =>
        /\ \A j \in 3..Len(sorted_videos) :
               ShouldGroup(Prev(j - 1), Cur(j - 1)) /\ ShouldGroup(Prev(j), Cur(j))
                   => \E k \in 1..Len(result) :
                          /\ IsCombined(result[k])
                          /\ \A r \in {sorted_videos[j - 2], sorted_videos[j - 1],
                                       sorted_videos[j]} :
                                 \E m \in 1..Len(result[k].dict.segments) :
                                     result[k].dict.segments[m] = r
        /\ Len(videos) = 3 /\ ShouldGroup(Prev(2), Cur(2))
             /\ ShouldGroup(Prev(3), Cur(3))
               => /\ Len(result) = 1
                  /\ IsCombined(result[1])
                  /\ result[1].dict.segment_count = 3
                  /\ result[1].dict.segments = sorted_videos

\* three records merged although the third starts more than 60 minutes
\* after the first ends
C5_Witness ==
    /\ pc = "done"
    /\ Len(videos) = 3
    /\ Len(result) = 1
    /\ result[1].dict.segment_count = 3
    /\ TotalSeconds(FromIsoFormat(videos[sorted_videos[3]].start_time.s),
                    FromIsoFormat(videos[sorted_videos[1]].end_time.s)) > 60 * 60

\* all records of the list have the same procedure_name, room, case_date
\* and users
AllSameCase ==
    \A a, b \in 1..Len(videos) :
        /\ SameGet(videos[a], videos[b], "procedure_name")
        /\ SameGet(videos[a], videos[b], "room")
        /\ SameGet(videos[a], videos[b], "case_date")
        /\ SameGet(videos[a], videos[b], "users")

HasWindow(v) ==
    /\ "start_time" \in v.keys /\ FullTimestamp(v.start_time)
    /\ "end_time" \in v.keys /\ FullTimestamp(v.end_time)
    /\ ~FromIsoFormat(v.start_time.s).aware
    /\ ~FromIsoFormat(v.end_time.s).aware

\* the time windows [start_time, end_time] of any two records intersect
MutuallyOverlapping ==
    /\ \A a \in 1..Len(videos) : HasWindow(videos[a])
    /\ \A a, b \in 1..Len(videos) :
           TotalSeconds(FromIsoFormat(videos[a].start_time.s),
                        FromIsoFormat(videos[b].end_time.s)) <= 0

OneCombinedOfAll ==
    /\ Len(result) = 1
    /\ IsCombined(result[1])
    /\ "segment_count" \in result[1].dict.keys
    /\ result[1].dict.segment_count = Len(videos)

\* C6 as written: whenever the records of a non-empty list share
\* procedure_name, room, case_date and users and their windows mutually
\* overlap, the call returns exactly one combined entry with
\* segment_count = len(records).
C6_AsWritten ==
    pc = "done" /\ videos # <<>> /\ AllSameCase /\ MutuallyOverlapping
        => OneCombinedOfAll

\* C6: the same for lists of at least two records; a list of one record
\* returns that record itself, without segment_count.
C6_CollapseOfTwoOrMore ==
    pc = "done" /\ AllSameCase /\ MutuallyOverlapping =>
        /\ Len(videos) >= 2 => OneCombinedOfAll
        /\ Len(videos) = 1 =>
               /\ Len(result) = 1
               /\ result[1].alias = 1
               /\ "segment_count" \notin Deref(videos, result[1]).keys

\* three different overlapping recordings collapsed into one entry
C6_Witness ==
    /\ pc = "done"
    /\ Len(videos) = 3
    /\ \A a, b \in 1..3 : a # b => videos[a] # videos[b]
    /\ AllSameCase /\ MutuallyOverlapping
    /\ OneCombinedOfAll

(***************************************************************************)
(* Properties of the handling of missing and malformed values.             *)
(***************************************************************************)
\* key k is absent from v or its value is the empty text
MissingTime(v, k) == k \notin v.keys \/ v[k] = PyStr("")

\* C4: two records adjacent in sort order that agree on procedure_name, room,
\* case_date and users are merged when prev.end_time or cur.start_time is
\* missing (key absent or empty value).
C4_MissingTimeMerges ==
    ScanOver =>
        \A j \in 2..Len(sorted_videos) :
            /\ SameCase(j)
            /\ MissingTime(Prev(j), "end_time") \/ MissingTime(Cur(j), "start_time")
            => PairMerged(j)

\* C8: the call never raises because of start_time or end_time values: no
\* call ends in the TypeError the comparisons of timestamps raise.
C8_NoTimestampError == ~(pc = "raised" /\ error = "TypeError")

RequiredKeys == {"procedure_name", "room", "case_date", "users", "start_time",
                 "end_time", "duration_seconds", "filename"}

WellFormed(v) == RequiredKeys \subseteq v.keys

\* C9: a list with a record that lacks a required key is not grouped: the
\* call raises InvalidInput, and a call raises nothing but InvalidInput.
C9_InvalidInputOnly ==
    /\ pc = "done" => \A r \in 1..Len(videos) : WellFormed(videos[r])
    /\ pc = "raised" =>
           /\ error = "InvalidInput"
           /\ \E r \in 1..Len(videos) : ~WellFormed(videos[r])

(***************************************************************************)
(* Properties of the users comparison and of the combined entry.           *)
(***************************************************************************)

\* positions j-1 and j agree on everything but the order of their users
SameUsersOtherOrder(j) ==
    /\ SameGet(Cur(j), Prev(j), "procedure_name")
    /\ SameGet(Cur(j), Prev(j), "room")
    /\ SameGet(Cur(j), Prev(j), "case_date")
    /\ TimeClose(Prev(j), Cur(j))
    /\ "users" \in Prev(j).keys /\ "users" \in Cur(j).keys
    /\ ElementsOf(Prev(j).users) = ElementsOf(Cur(j).users)
    /\ Prev(j).users # Cur(j).users

\* C11: two records adjacent in sort order that agree on procedure_name,
\* room, case_date and time proximity but list the same users in a different
\* order are not merged; a list of two such records returns two single
\* operations.
C11_UsersOrderSensitive ==
    ScanOver =>
        /\ \A j \in 2..Len(sorted_videos) :
               SameUsersOtherOrder(j) => ~PairMerged(j)
        /\ pc = "done" /\ Len(videos) = 2 /\ SameUsersOtherOrder(2) =>
               /\ Len(result) = 2
               /\ ~IsCombined(result[1])
               /\ ~IsCombined(result[2])

\* two records with the users in opposite order came back separately
C11_Witness ==
    /\ pc = "done"
    /\ Len(videos) = 2
    /\ SameUsersOtherOrder(2)
    /\ Len(result) = 2

\* the durations of the segments of a combined entry
SegmentDurations(e) ==
    [k \in 1..Len(e.dict.segments) |->
        Get(videos[e.dict.segments[k]], "duration_seconds", 0)]

RECURSIVE SumOf(_)
SumOf(xs) == IF xs = <<>> THEN 0 ELSE Head(xs) + SumOf(Tail(xs))

\* C12: the duration_seconds of a combined entry is the largest
\* duration_seconds of its segments, and not their sum when the two differ.
C12_DurationIsMax ==
    pc = "done" =>
        \A k \in 1..Len(result) :
            IsCombined(result[k]) =>
                LET ds == SegmentDurations(result[k])
                    d == result[k].dict.duration_seconds
                IN  /\ \E m \in 1..Len(ds) : ds[m] = d
                    /\ \A m \in 1..Len(ds) : ds[m] <= d
                    /\ (\E m \in 1..Len(ds) : ds[m] # SumOf(ds)) => d # SumOf(ds)

\* a combined entry of segments lasting 100 and 200 seconds lasts 200
C12_Witness ==
    /\ pc = "done"
    /\ \E k \in 1..Len(result) :
          /\ IsCombined(result[k])
          /\ ElementsOf(SegmentDurations(result[k])) = {100, 200}
          /\ result[k].dict.duration_seconds = 200

(***************************************************************************)
(* The call and its input.                                                 *)
(***************************************************************************)
\* C14: no step of a call changes the caller's list or any of its dicts, and
\* when the call returns, every single operation is the input dict itself,
\* with no key added, and every segment of a combined entry is an input dict.
C14_InputNotMutated ==
    [][/\ videos' = videos
       /\ pc' = "done" =>
            \A k \in 1..Len(result') :
                IF IsCombined(result'[k])
                THEN \A m \in 1..Len(result'[k].dict.segments) :
                         result'[k].dict.segments[m] \in 1..Len(videos)
                ELSE /\ result'[k].alias \in 1..Len(videos)
                     /\ result'[k].dict = videos[result'[k].alias]
                     /\ result'[k].dict.keys \cap ExtraKeys = {}]_vars

\* a call returned a combined entry and a single record
C14_Witness ==
    /\ pc = "done"
    /\ \E k \in 1..Len(result) : IsCombined(result[k])
    /\ \E k \in 1..Len(result) : ~IsCombined(result[k])

(***************************************************************************)
(* The groups as runs of the sorted list.                                  *)
(***************************************************************************)
KeyAt(a) == SortKey(videos[sorted_videos[a]])

\* sorted_videos is the input in ascending key order, ties in input order
StablySorted ==
    /\ Len(sorted_videos) = Len(videos)
    /\ \A r \in 1..Len(videos) : Count(sorted_videos, r) = 1
    /\ \A a, b \in 1..Len(sorted_videos) :
           a < b =>
               /\ KeyLt(KeyAt(b), KeyAt(a)) # "lt"
               /\ KeyLt(KeyAt(a), KeyAt(b)) # "lt"
                    => sorted_videos[a] < sorted_videos[b]

RECURSIVE Flatten(_)
Flatten(gs) == IF gs = <<>> THEN <<>> ELSE Head(gs) \o Flatten(Tail(gs))

\* C18: the sorted list S is the input stably sorted by (case_date,
\* procedure_name, room, start_time); the groups are contiguous runs of S
\* whose concatenation is S, two neighbours of S are in one group exactly
\* when all five predicates hold between them, and the operations are
\* emitted run by run with their segments in S order.
C18_GroupsAreMaximalRuns ==
    ScanOver =>
        /\ StablySorted
        /\ Flatten(grouped) = sorted_videos
        /\ \A k \in 1..Len(grouped) : grouped[k] # <<>>
        /\ \A j \in 2..Len(sorted_videos) :
               PairMerged(j) <=> (SameCase(j) /\ TimeClose(Prev(j), Cur(j)))
        /\ pc = "done" =>
               /\ Len(result) = Len(grouped)
               /\ \A k \in 1..Len(result) : Members(result[k]) = grouped[k]
               /\ AllMembers(result) = sorted_videos

\* three records, two of them tied on the sort key and given in an order
\* that is not the order of their other fields, in two runs
C18_Witness ==
    /\ pc = "done"
    /\ Len(videos) = 3
    /\ \E a, b \in 1..3 :
          /\ a < b
          /\ videos[a] # videos[b]
          /\ SortKey(videos[a]) = SortKey(videos[b])
    /\ Len(result) = 2
    /\ \E k \in 1..2 : IsCombined(result[k])

(***************************************************************************)
(* The surgeon filter of the "Fetch Videos" handler.                       *)
(***************************************************************************)
\* C19: every combined operation is homogeneous: each segment has the
\* operation's procedure_name, room, case_date and users, so the surgeon
\* filter answers for the operation as it answers for any of its segments,
\* whatever identifiers are configured.
C19_CombinedHomogeneous ==
    pc = "done" =>
        \A k \in 1..Len(result) :
            IsCombined(result[k]) =>
                \A m \in 1..Len(result[k].dict.segments) :
                    LET seg == videos[result[k].dict.segments[m]]
                        op == result[k].dict
                    IN  /\ SameGet(seg, op, "procedure_name")
                        /\ SameGet(seg, op, "room")
                        /\ SameGet(seg, op, "case_date")
                        /\ SameGet(seg, op, "users")
                        /\ \A ids \in SUBSET SurgeonIds :
                               MatchesMySurgeons(op, ids) = MatchesMySurgeons(seg, ids)

\* a combined operation the filter keeps beside an operation it drops
C19_Witness ==
    /\ pc = "done"
    /\ \E k \in 1..Len(result) :
          /\ IsCombined(result[k])
          /\ MatchesMySurgeons(result[k].dict, {"EMR1"})
    /\ \E k \in 1..Len(result) : ~MatchesMySurgeons(Deref(videos, result[k]), {"EMR1"})

(***************************************************************************)
(* Timestamps without a date component.                                    *)
(***************************************************************************)
\* the moment a timestamp of record v names: a full timestamp as it reads,
\* a time of the day on the record's case date; ok = FALSE when the text
\* names no moment ("N/A", empty)
Clock(v, x) ==
    IF x.t # "str" THEN FromIsoFormat("")
    ELSE IF Contains(x.s, "T") THEN FromIsoFormat(x.s)
    ELSE FromIsoFormat(Get(v, "case_date", "") \o "T" \o x.s)

\* prev.end_time and cur.start_time are both non-empty texts and at least
\* one has no 'T'
LacksDate(j) ==
    LET prev_end == Get(Prev(j), "end_time", PyStr(""))
        curr_start == Get(Cur(j), "start_time", PyStr(""))
    IN  /\ prev_end.t = "str" /\ prev_end.s # ""
        /\ curr_start.t = "str" /\ curr_start.s # ""
        /\ ~Contains(prev_end.s, "T") \/ ~Contains(curr_start.s, "T")

\* C15: when prev.end_time and cur.start_time are both present and at least
\* one has no date component, time_close is true, so neighbours in sort
\* order that agree on procedure_name, room, case_date and users are merged
\* however far apart their times are.
C15_NoDateMerges ==
    ScanOver =>
        \A j \in 2..Len(sorted_videos) :
            (LacksDate(j) /\ SameCase(j)) => PairMerged(j)

\* two merged neighbours with times of the day three hours apart, and two
\* merged neighbours of which only one has a date component
C15_Witness ==
    /\ ScanOver
    /\ \E j \in 2..Len(sorted_videos) :
          /\ LacksDate(j) /\ SameCase(j) /\ PairMerged(j)
          /\ Clock(Prev(j), Prev(j).end_time).ok
          /\ Clock(Cur(j), Cur(j).start_time).ok
          /\ TotalSeconds(Clock(Cur(j), Cur(j).start_time),
                          Clock(Prev(j), Prev(j).end_time)) >= 3 * 3600
    /\ \E j \in 2..Len(sorted_videos) :
          /\ LacksDate(j) /\ SameCase(j) /\ PairMerged(j)
          /\ Contains(Cur(j).start_time.s, "T")

(***************************************************************************)
(* The times of a combined operation.                                      *)
(***************************************************************************)
\* moment a is not after moment b
NotAfter(a, b) == TotalSeconds(a, b) <= 0

\* the segments of operation e whose timestamp k names a moment
Timed(e, k) ==
    {m \in 1..Len(e.dict.segments) :
        LET v == videos[e.dict.segments[m]]
        IN  k \in v.keys /\ Clock(v, v[k]).ok}

\* C13: the start_time of a combined operation is the earliest start_time
\* of its segments and its end_time the latest end_time of its segments,
\* also when a segment's timestamp is "N/A" or empty or the segments'
\* timestamps are written in different formats.
C13_EarliestStartLatestEnd ==
    pc = "done" =>
        \A k \in 1..Len(result) :
            IsCombined(result[k]) =>
                LET e == result[k]
                    seg(m) == videos[e.dict.segments[m]]
                IN  /\ Timed(e, "start_time") # {} =>
                          \E m \in Timed(e, "start_time") :
                              /\ e.dict.start_time = seg(m).start_time
                              /\ \A n \in Timed(e, "start_time") :
                                     NotAfter(Clock(seg(m), seg(m).start_time),
                                              Clock(seg(n), seg(n).start_time))
                    /\ Timed(e, "end_time") # {} =>
                          \E m \in Timed(e, "end_time") :
                              /\ e.dict.end_time = seg(m).end_time
                              /\ \A n \in Timed(e, "end_time") :
                                     NotAfter(Clock(seg(n), seg(n).end_time),
                                              Clock(seg(m), seg(m).end_time))

(***************************************************************************)
(* The feed labels of a combined operation.                                *)
(***************************************************************************)
\* the file name without its extension: the text before the last dot
BeforeExtension(s) ==
    LET D == {k \in 1..Len(s) : Ch(s, k) = "."}
    IN  IF D = {} THEN s
        ELSE SubSeq(s, 1, (CHOOSE k \in D : \A j \in D : j <= k) - 1)

\* the label the file name stands for
ExpectedLabel(filename) ==
    IF Contains(filename, "V") THEN Suffix(BeforeExtension(filename), 2) ELSE "?"

\* C17: feed_names of a combined operation is parallel to segments (same
\* length, which is segment_count, same order); the label of a segment is
\* the last two characters before the file extension when the file name
\* contains 'V' and "?" otherwise, also for file names with several dots
\* and file names whose only 'V' is in the extension.
C17_FeedNamesParallel ==
    pc = "done" =>
        \A k \in 1..Len(result) :
            IsCombined(result[k]) =>
                LET d == result[k].dict
                IN  /\ Len(d.feed_names) = Len(d.segments)
                    /\ Len(d.feed_names) = d.segment_count
                    /\ \A m \in 1..Len(d.segments) :
                           d.feed_names[m]
                             = ExpectedLabel(Get(videos[d.segments[m]], "filename", ""))

(***************************************************************************)
(* The fetch pipeline: parse, filter by date, group.                       *)
(***************************************************************************)
\* the handler's call of group_related_videos has finished its scan
PipelineScanOver == handler = "grouping" /\ ScanOver

\* C20: in the fetch pipeline the 60-minute test is never exercised: no
\* time of a parsed record has a date component, so neighbours in sort
\* order with non-empty times that agree on procedure_name, room, case_date
\* and users are merged however many hours lie between them.
C20_PipelineNeverTestsProximity ==
    /\ handler = "grouping" =>
           \A k \in 1..Len(videos) :
               /\ ~Contains(videos[k].start_time.s, "T")
               /\ ~Contains(videos[k].end_time.s, "T")
    /\ PipelineScanOver =>
           \A j \in 2..Len(sorted_videos) :
               (/\ Truthy(Prev(j).end_time)
                /\ Truthy(Cur(j).start_time)
                /\ SameCase(j)) => PairMerged(j)

\* the pipeline merged two records whose API timestamps are three hours
\* apart
C20_Witness ==
    /\ PipelineScanOver
    /\ \E j \in 2..Len(sorted_videos) :
          /\ SameCase(j) /\ PairMerged(j)
          /\ Clock(Prev(j), Prev(j).end_time).ok
          /\ Clock(Cur(j), Cur(j).start_time).ok
          /\ TotalSeconds(Clock(Cur(j), Cur(j).start_time),
                          Clock(Prev(j), Prev(j).end_time)) >= 3 * 3600

(***************************************************************************)
(* The weekly script.                                                      *)
(***************************************************************************)
\* C16: main() of the weekly script runs without a user: no execution,
\* whether authentication fails, the fetch is empty or the export is
\* written, comes to wait for user input.
C16_NeverWaitsForInput == main_at # "input"

(***************************************************************************)
(* The session state across Authenticate and Fetch Videos.                 *)
(***************************************************************************)
\* C21: across any sequence of Authenticate and Fetch Videos clicks,
\* video_list changes only in the Fetch handler, run with auth_token set on
\* a non-empty API response; a failed authentication leaves auth_token and
\* video_list as they are (auth_token only ever changes to a token), and an
\* empty or failed fetch leaves video_list as it is and ends the handler.
C21_VideoListFrame ==
    [][/\ video_list' # video_list =>
              /\ handler = "grouping"
              /\ pc = "done"
              /\ auth_token # ""
              /\ video_data # <<>>
              /\ handler' = "idle"
       /\ auth_token' # auth_token =>
              /\ auth_token' # ""
              /\ video_list' = video_list
       /\ (handler = "idle" /\ video_data' = <<>>) =>
              /\ video_list' = video_list
              /\ handler' = "idle"
       /\ auth_token = "" => (handler' = "idle" /\ video_list' = video_list)]_vars

\* operations fetched earlier are still on display after a later fetch that
\* came back empty
C21_Witness ==
    /\ handler = "idle"
    /\ auth_token # ""
    /\ video_list # <<>>
    /\ video_data = <<>>
====
